---- MODULE Spec2Model ----
(***************************************************************************)
(* Model of load_data in src/app.py: the quote-aware repair of a CSV       *)
(* document, the primary and the lenient parse, the post-parse coercions   *)
(* and the st.cache_data memoisation of the result.                        *)
(*                                                                         *)
(* Text is a sequence of symbols.  A symbol is one character that the      *)
(* code tests for (quote, comma, colon, blank, newline) or an unbroken run *)
(* of ordinary characters that no test of the code looks into: a word, a   *)
(* numeric literal, a date literal, a column name.                         *)
(***************************************************************************)
EXTENDS Integers, Sequences, FiniteSets, TLC

\* ---------------------------------------------------------------- symbols
Quote == "\""
Comma == ","
Colon == ":"
Blank == " "
NL    == "\n"
Word    == "x"            \* a run of letters: neither a number nor a date
NumLit  == "7"            \* a numeric literal such as 3.5
DateLit == "d"            \* a date literal such as 2024-01-01

\* ----------------------------------------------------------------- bounds
MaxLen   == 5             \* longest data line of the line-level specification
MaxCols  == 2             \* most header columns of the line-level specification
MaxRows  == 2             \* most data lines of a source file
MaxReads == 2             \* most times the source file is opened

\* ------------------------------------------------------- sequence helpers
RECURSIVE Join(_, _)
\* sep.join(parts)
Join(parts, sep) ==
    IF parts = <<>> THEN <<>>
    ELSE IF Len(parts) = 1 THEN parts[1]
    ELSE parts[1] \o <<sep>> \o Join(Tail(parts), sep)

Contains(s, c) == \E i \in 1..Len(s) : s[i] = c

IsSpace(c) == c = Blank \/ c = NL

RECURSIVE LStrip(_)
LStrip(s) == IF s # <<>> /\ IsSpace(s[1]) THEN LStrip(Tail(s)) ELSE s

RECURSIVE RStrip(_)
RStrip(s) ==
    IF s # <<>> /\ IsSpace(s[Len(s)]) THEN RStrip(SubSeq(s, 1, Len(s) - 1)) ELSE s

\* str.strip()
Strip(s) == RStrip(LStrip(s))

RECURSIVE SplitOn(_, _, _, _)
SplitOn(s, c, i, cur) ==
    IF i > Len(s) THEN <<cur>>
    ELSE IF s[i] = c THEN <<cur>> \o SplitOn(s, c, i + 1, <<>>)
    ELSE SplitOn(s, c, i + 1, Append(cur, s[i]))

\* str.split('\n')
SplitNL(s) == SplitOn(s, NL, 1, <<>>)

\* ------------------------------------------------- the quote-aware split
RECURSIVE SplitScan(_, _, _, _, _)
\* the loop over the characters of one line, and the "add last part" step
SplitScan(line, i, parts, current_part, in_quotes) ==
    IF i > Len(line)
    THEN IF current_part # <<>> THEN Append(parts, current_part) ELSE parts
    ELSE LET char == line[i] IN
         IF char = Quote
         THEN SplitScan(line, i + 1, parts, Append(current_part, char), ~in_quotes)
         ELSE IF char = Comma /\ ~in_quotes
         THEN SplitScan(line, i + 1, Append(parts, current_part), <<>>, in_quotes)
         ELSE SplitScan(line, i + 1, parts, Append(current_part, char), in_quotes)

SplitLine(line) == SplitScan(line, 1, <<>>, <<>>, FALSE)

\* the body of the loop over parts: trim, then wrap in quotes where the rule applies
FixPart(part) ==
    LET p == Strip(part) IN
    IF p # <<>> /\ p[1] # Quote /\ (Contains(p, Comma) \/ Contains(p, Colon))
    THEN <<Quote>> \o p \o <<Quote>>
    ELSE p

FixParts(parts) == [k \in 1..Len(parts) |-> FixPart(parts[k])]

\* one data line repaired: ','.join(fixed_parts)
FixLine(line) == Join(FixParts(SplitLine(line)), Comma)

\* ------------------------------------------- pd.read_csv, the C tokenizer
\* first index at or after i whose symbol is not a blank (Len(t) + 1 if none)
RECURSIVE SkipBlanks(_, _)
SkipBlanks(t, i) == IF i <= Len(t) /\ t[i] = Blank THEN SkipBlanks(t, i + 1) ELSE i

RECURSIVE TokC(_, _, _, _, _, _)
\* The tokenizer of read_csv's default engine over the whole text (delimiter ',',
\* quotechar '"', doublequote, skip_blank_lines): st is its state, SR start of
\* record, SF start of field, IF in field, QF in quoted field, QQ quote seen in a
\* quoted field.  Yields the records, or ok = FALSE for "EOF inside string".
TokC(t, i, st, fld, row, rows) ==
    IF i > Len(t)
    THEN CASE st = "SR" -> [ok |-> TRUE, rows |-> rows]
           [] st = "QF" -> [ok |-> FALSE, rows |-> rows]
           [] OTHER     -> [ok |-> TRUE, rows |-> Append(rows, Append(row, fld))]
    ELSE LET c == t[i] IN
      CASE st = "SR" ->
             IF c = NL THEN TokC(t, i + 1, "SR", <<>>, <<>>, rows)
             ELSE IF c = Blank
             THEN LET j == SkipBlanks(t, i) IN
                  IF j > Len(t) THEN [ok |-> TRUE, rows |-> rows]
                  ELSE IF t[j] = NL THEN TokC(t, j + 1, "SR", <<>>, <<>>, rows)
                  ELSE TokC(t, i, "SF", <<>>, <<>>, rows)
             ELSE TokC(t, i, "SF", <<>>, <<>>, rows)
        [] st = "SF" ->
             IF c = NL THEN TokC(t, i + 1, "SR", <<>>, <<>>, Append(rows, Append(row, fld)))
             ELSE IF c = Quote THEN TokC(t, i + 1, "QF", fld, row, rows)
             ELSE IF c = Comma THEN TokC(t, i + 1, "SF", <<>>, Append(row, fld), rows)
             ELSE TokC(t, i + 1, "IF", Append(fld, c), row, rows)
        [] st = "IF" ->
             IF c = NL THEN TokC(t, i + 1, "SR", <<>>, <<>>, Append(rows, Append(row, fld)))
             ELSE IF c = Comma THEN TokC(t, i + 1, "SF", <<>>, Append(row, fld), rows)
             ELSE TokC(t, i + 1, "IF", Append(fld, c), row, rows)
        [] st = "QF" ->
             IF c = Quote THEN TokC(t, i + 1, "QQ", fld, row, rows)
             ELSE TokC(t, i + 1, "QF", Append(fld, c), row, rows)
        [] OTHER ->
             IF c = Quote THEN TokC(t, i + 1, "QF", Append(fld, c), row, rows)
             ELSE IF c = Comma THEN TokC(t, i + 1, "SF", <<>>, Append(row, fld), rows)
             ELSE IF c = NL
             THEN TokC(t, i + 1, "SR", <<>>, <<>>, Append(rows, Append(row, fld)))
             ELSE TokC(t, i + 1, "IF", Append(fld, c), row, rows)

TokenizeC(t) == TokC(t, 1, "SR", <<>>, <<>>, <<>>)

\* ------------------------ pd.read_csv(engine='python', on_bad_lines='skip')
\* index after the end of the physical line that holds position i
RECURSIVE NextLine(_, _)
NextLine(t, i) ==
    IF i > Len(t) THEN i ELSE IF t[i] = NL THEN i + 1 ELSE NextLine(t, i + 1)

RECURSIVE TokPy(_, _, _, _, _, _)
\* The python engine reads records with csv.reader(strict=True); a record the
\* reader rejects (a symbol other than ',' or newline after a closing quote, or
\* the end of the data inside a quoted field) is skipped and reading goes on with
\* the next physical line.  Yields the records read, empty ones left out.
TokPy(t, i, st, fld, row, rows) ==
    IF i > Len(t)
    THEN CASE st = "SR" -> rows
           [] st = "QF" -> rows
           [] OTHER     -> Append(rows, Append(row, fld))
    ELSE LET c == t[i] IN
      CASE st = "SR" ->
             IF c = NL THEN TokPy(t, i + 1, "SR", <<>>, <<>>, rows)
             ELSE TokPy(t, i, "SF", <<>>, <<>>, rows)
        [] st = "SF" ->
             IF c = NL THEN TokPy(t, i + 1, "SR", <<>>, <<>>, Append(rows, Append(row, fld)))
             ELSE IF c = Quote THEN TokPy(t, i + 1, "QF", fld, row, rows)
             ELSE IF c = Comma THEN TokPy(t, i + 1, "SF", <<>>, Append(row, fld), rows)
             ELSE TokPy(t, i + 1, "IF", Append(fld, c), row, rows)
        [] st = "IF" ->
             IF c = NL THEN TokPy(t, i + 1, "SR", <<>>, <<>>, Append(rows, Append(row, fld)))
             ELSE IF c = Comma THEN TokPy(t, i + 1, "SF", <<>>, Append(row, fld), rows)
             ELSE TokPy(t, i + 1, "IF", Append(fld, c), row, rows)
        [] st = "QF" ->
             IF c = Quote THEN TokPy(t, i + 1, "QQ", fld, row, rows)
             ELSE TokPy(t, i + 1, "QF", Append(fld, c), row, rows)
        [] OTHER ->
             IF c = Quote THEN TokPy(t, i + 1, "QF", Append(fld, c), row, rows)
             ELSE IF c = Comma THEN TokPy(t, i + 1, "SF", <<>>, Append(row, fld), rows)
             ELSE IF c = NL
             THEN TokPy(t, i + 1, "SR", <<>>, <<>>, Append(rows, Append(row, fld)))
             ELSE TokPy(t, NextLine(t, i), "SR", <<>>, <<>>, rows)

\* skip_blank_lines of the python engine: a record with one field of blanks only
IsEmptyRecord(r) == Len(r) = 1 /\ Strip(r[1]) = <<>>

RECURSIVE DropEmpty(_)
DropEmpty(rows) ==
    IF rows = <<>> THEN <<>>
    ELSE IF IsEmptyRecord(rows[1]) THEN DropEmpty(Tail(rows))
    ELSE <<rows[1]>> \o DropEmpty(Tail(rows))

TokenizePy(t) == DropEmpty(TokPy(t, 1, "SR", <<>>, <<>>, <<>>))

\* --------------------------------------------------------------- the frame
\* A frame is [columns, data]: data[k][j] is the cell of row k under columns[j].
\* A cell is the text of its field; NA, the empty text, is the missing value
\* (NaN, NaT), which is what read_csv makes of an empty field.
NA == <<>>
FillValue == <<"N/A">>
EmptyFrame == [columns |-> <<>>, data |-> <<>>]

Max(a, b) == IF a >= b THEN a ELSE b

\* the width the records are brought to: the header's field count, or the first
\* data record's when that is larger (its leading fields become the index)
Width(rows) == IF Len(rows) >= 2 THEN Max(Len(rows[1]), Len(rows[2])) ELSE Len(rows[1])

CellAt(r, idx) == IF idx <= Len(r) THEN r[idx] ELSE NA

\* rows[1] is the header; short records are padded with NA on the right
MakeFrame(rows, w) ==
    LET h == Len(rows[1]) IN
    [columns |-> rows[1],
     data |-> [k \in 1..(Len(rows) - 1) |->
                  [j \in 1..h |-> CellAt(rows[k + 1], w - h + j)]]]

\* pd.read_csv(StringIO(fixed_content), quotechar='"'): fails on "EOF inside
\* string", on an empty document, and on a record after the first data record
\* that has more fields than expected
ReadCsv(t) ==
    LET tk == TokenizeC(t) IN
    IF ~tk.ok \/ tk.rows = <<>> THEN [ok |-> FALSE, df |-> EmptyFrame]
    ELSE LET w == Width(tk.rows) IN
         IF \E k \in 3..Len(tk.rows) : Len(tk.rows[k]) > w
         THEN [ok |-> FALSE, df |-> EmptyFrame]
         ELSE [ok |-> TRUE, df |-> MakeFrame(tk.rows, w)]

RECURSIVE KeepFitting(_, _)
KeepFitting(rows, w) ==
    IF rows = <<>> THEN <<>>
    ELSE IF Len(rows[1]) > w THEN KeepFitting(Tail(rows), w)
    ELSE <<rows[1]>> \o KeepFitting(Tail(rows), w)

\* pd.read_csv(csv_path, on_bad_lines='skip', engine='python'): fails on a file
\* with no record; a record with too many fields is skipped
ReadCsvSkip(t) ==
    LET rows == TokenizePy(t) IN
    IF rows = <<>> THEN [ok |-> FALSE, df |-> EmptyFrame]
    ELSE LET w == Width(rows) IN
         [ok |-> TRUE, df |-> MakeFrame(<<rows[1]>> \o KeepFitting(Tail(rows), w), w)]

\* ------------------------------------------------------------ the repair
\* content.strip().split('\n'), the header kept, every other line repaired,
\* and '\n'.join(fixed_lines)
FixedLines(content) ==
    LET lines == SplitNL(Strip(content)) IN
    [i \in 1..Len(lines) |-> IF i = 1 THEN lines[i] ELSE FixLine(lines[i])]

FixContent(content) == Join(FixedLines(content), NL)

\* ---------------------------------------------------------- the coercions
HasColumn(df, name) == \E j \in 1..Len(df.columns) : df.columns[j] = <<name>>
ColumnIndex(df, name) == CHOOSE j \in 1..Len(df.columns) : df.columns[j] = <<name>>
Column(df, name) == [k \in 1..Len(df.data) |-> df.data[k][ColumnIndex(df, name)]]

\* df[name] = col
SetColumn(df, name, col) ==
    LET c == ColumnIndex(df, name) IN
    [df EXCEPT !.data = [k \in 1..Len(df.data) |->
                            [j \in 1..Len(df.columns) |->
                                IF j = c THEN col[k] ELSE df.data[k][j]]]]

\* pd.to_datetime: a date literal parses and a missing value becomes NaT; a
\* number or a blank-padded date is read or rejected depending on the rest of
\* the column; any other text raises
DateSure(cell) == cell = NA \/ cell = <<DateLit>>
DateMaybe(cell) == ~DateSure(cell) /\ Strip(cell) \in {<<DateLit>>, <<NumLit>>}
\* errors='coerce' in place of the default errors='raise': nothing raises
DateOutcomes_Coerce(col) == {TRUE}

DateOutcomes(col) ==
    IF \E k \in 1..Len(col) : ~DateSure(col[k]) /\ ~DateMaybe(col[k]) THEN {FALSE}
    ELSE IF \E k \in 1..Len(col) : DateMaybe(col[k]) THEN {TRUE, FALSE}
    ELSE {TRUE}

\* errors='ignore': a value that is no number is left as it is
ToNumeric_Ignore(cell) == cell

\* pd.to_numeric(errors='coerce')
IsNumeric(cell) == Strip(cell) = <<NumLit>>
ToNumeric(cell) == IF IsNumeric(cell) THEN <<NumLit>> ELSE NA

\* the fill left out
FillNa_Keep(cell) == cell

\* fillna('N/A')
FillNa(cell) == IF cell = NA THEN FillValue ELSE cell

str_cols_to_fill == <<"risk_level", "status", "attack_type">>

RECURSIVE FillColumns(_, _)
FillColumns(df, i) ==
    IF i > Len(str_cols_to_fill) THEN df
    ELSE IF HasColumn(df, str_cols_to_fill[i])
    THEN LET col == Column(df, str_cols_to_fill[i]) IN
         FillColumns(SetColumn(df, str_cols_to_fill[i],
                               [k \in 1..Len(col) |-> FillNa(col[k])]), i + 1)
    ELSE FillColumns(df, i + 1)

\* ---------------------------------------------------------------- inputs
Headers == {
    <<"date", Comma, "time_to_fix_hours", Comma, "risk_level">>,
    <<"date", Comma, "time_to_fix_hours", Comma, "risk_level", Comma, "status">>,
    <<"time_to_fix_hours", Comma, "risk_level">> }

\* data lines written for the first header: date, time_to_fix_hours, risk_level
DataLines == {
    <<DateLit, Comma, NumLit, Comma, Word>>,                 \* d,7,x
    <<DateLit, Comma, Word, Comma>>,                         \* d,x,      no number, no risk
    <<Word, Comma, NumLit, Comma, Word>>,                    \* x,7,x     no date
    <<DateLit, Comma, NumLit, Comma, Word, Comma, Word>>,    \* d,7,x,x   embedded comma
    <<DateLit, Comma, NumLit, Comma, Quote, Word>>,          \* d,7,"x    quote left open
    <<DateLit, Comma, NumLit, Comma, Blank, Quote, Word>>,   \* d,7, "x   the same, padded
    <<Comma, NumLit, Comma, Word, Colon, Word>>,             \* ,7,x:x    no date, a colon
    <<DateLit, Comma, Blank, Comma, Quote, Word, Comma, Word, Quote>>,  \* d, ,"x,x"
    <<DateLit, Comma, NumLit, Comma, Quote, Word, Quote, Word>>,        \* d,7,"x"x
    <<DateLit, Comma, NumLit>> }                             \* d,7       short row

\* the texts the source file may hold: nothing at all, or a header and up to
\* MaxRows data lines, the last line with or without its newline
Docs ==
    {<<>>} \cup
    { Join(<<h>> \o ls, NL) \o tr :
        h \in Headers,
        ls \in UNION { [1..n -> DataLines] : n \in 0..MaxRows },
        tr \in {<<>>, <<NL>>} }

NoFile == [exists |-> FALSE, text |-> <<>>]
Files == {NoFile} \cup { [exists |-> TRUE, text |-> d] : d \in Docs }

Alphabet == {Word, Comma, Quote, Colon, Blank}
Lines == UNION { [1..n -> Alphabet] : n \in 0..MaxLen }

NoTable == [has |-> FALSE, df |-> EmptyFrame]

\* ----------------------------------------------------------------- state
VARIABLES
    pc,             \* where the script run stands in load_data
    file,           \* the source file as this call finds it
    content,        \* the text read from it
    fixed_content,  \* the corrected document
    df,             \* the frame being built
    msgs,           \* what st.error and st.warning have shown in this run
    cache,          \* the st.cache_data entry of load_data()
    reads,          \* how many times the file has been opened and read
    returned,       \* the module-level df of this run
    line,           \* line-level specification: the data line
    ncols,          \* its header's number of columns
    lpc,            \* how far the repair of the line has got
    parts,          \* the line split
    fixed_parts,    \* the parts trimmed and quoted
    fixed_line      \* the parts joined again

loadVars == <<pc, file, content, fixed_content, df, msgs, cache, reads, returned>>
lineVars == <<line, ncols, lpc, parts, fixed_parts, fixed_line>>
vars == <<pc, file, content, fixed_content, df, msgs, cache, reads, returned,
          line, ncols, lpc, parts, fixed_parts, fixed_line>>

ErrNotFound == "error: data file not found"
ErrLoading  == "error: loading CSV"
ErrCritical == "error: critical"
WarnSkipped == "warning: lines skipped"

LoadInit ==
    /\ pc = "idle"
    /\ file = NoFile
    /\ content = <<>>
    /\ fixed_content = <<>>
    /\ df = EmptyFrame
    /\ msgs = <<>>
    /\ cache = NoTable
    /\ reads = 0
    /\ returned = NoTable

LineIdle ==
    /\ line = <<>>
    /\ ncols = 1
    /\ lpc = "off"
    /\ parts = <<>>
    /\ fixed_parts = <<>>
    /\ fixed_line = <<>>

Init == LoadInit /\ LineIdle

\* ------------------------------------------------------------- load_data
\* load_data without its decorator: the body runs on every call
Call_Uncached ==
    /\ pc \in {"idle", "returned", "stopped", "raised"}
    /\ reads < MaxReads
    /\ msgs' = <<>>
    /\ file' = NoFile
    /\ content' = <<>>
    /\ fixed_content' = <<>>
    /\ df' = EmptyFrame
    /\ pc' = "open"
    /\ returned' = NoTable
    /\ UNCHANGED <<cache, reads>>
    /\ UNCHANGED lineVars

\* A run of the script reaches df = load_data(): the memoised result is
\* returned when there is one, otherwise the body runs.
Call ==
    /\ pc \in {"idle", "returned", "stopped", "raised"}
    /\ cache.has \/ reads < MaxReads
    /\ msgs' = <<>>
    /\ file' = NoFile
    /\ content' = <<>>
    /\ fixed_content' = <<>>
    /\ df' = EmptyFrame
    /\ IF cache.has
       THEN pc' = "returned" /\ returned' = cache
       ELSE pc' = "open" /\ returned' = NoTable
    /\ UNCHANGED <<cache, reads>>
    /\ UNCHANGED lineVars

\* with open(csv_path) ... f.read(); FileNotFoundError: st.error, st.stop
Open ==
    /\ pc = "open"
    /\ \E f \in Files :
         /\ file' = f
         /\ IF f.exists
            THEN /\ content' = f.text
                 /\ reads' = reads + 1
                 /\ pc' = "fix"
                 /\ msgs' = msgs
            ELSE /\ content' = content
                 /\ reads' = reads
                 /\ pc' = "stopped"
                 /\ msgs' = Append(msgs, ErrNotFound)
    /\ UNCHANGED <<fixed_content, df, cache, returned>>
    /\ UNCHANGED lineVars

\* the repair of the lines and fixed_content = '\n'.join(fixed_lines)
Fix ==
    /\ pc = "fix"
    /\ fixed_content' = FixContent(content)
    /\ pc' = "parse"
    /\ UNCHANGED <<file, content, df, msgs, cache, reads, returned>>
    /\ UNCHANGED lineVars

\* df = pd.read_csv(StringIO(fixed_content)); except Exception: st.error
Parse ==
    /\ pc = "parse"
    /\ LET r == ReadCsv(fixed_content) IN
       IF r.ok
       THEN df' = r.df /\ pc' = "to_datetime" /\ msgs' = msgs
       ELSE df' = df /\ pc' = "fallback" /\ msgs' = Append(msgs, ErrLoading)
    /\ UNCHANGED <<file, content, fixed_content, cache, reads, returned>>
    /\ UNCHANGED lineVars

\* the retry without its st.warning
Fallback_Silent ==
    /\ pc = "fallback"
    /\ LET r == ReadCsvSkip(content) IN
       IF r.ok
       THEN df' = r.df /\ pc' = "to_datetime" /\ msgs' = msgs
       ELSE df' = df /\ pc' = "stopped" /\ msgs' = Append(msgs, ErrCritical)
    /\ UNCHANGED <<file, content, fixed_content, cache, reads, returned>>
    /\ UNCHANGED lineVars

\* the retry on the original file, bad lines skipped: st.warning, or st.error
\* and st.stop when it fails too
Fallback ==
    /\ pc = "fallback"
    /\ LET r == ReadCsvSkip(content) IN
       IF r.ok
       THEN df' = r.df /\ pc' = "to_datetime" /\ msgs' = Append(msgs, WarnSkipped)
       ELSE df' = df /\ pc' = "stopped" /\ msgs' = Append(msgs, ErrCritical)
    /\ UNCHANGED <<file, content, fixed_content, cache, reads, returned>>
    /\ UNCHANGED lineVars

\* df['date'] = pd.to_datetime(df['date']): raises on a missing column or on a
\* value that is no date, and nothing catches it
ToDatetime ==
    /\ pc = "to_datetime"
    /\ IF ~HasColumn(df, "date")
       THEN pc' = "raised"
       ELSE \E good \in DateOutcomes(Column(df, "date")) :
              pc' = IF good THEN "to_numeric" ELSE "raised"
    /\ UNCHANGED <<file, content, fixed_content, df, msgs, cache, reads, returned>>
    /\ UNCHANGED lineVars

\* df['time_to_fix_hours'] = pd.to_numeric(..., errors='coerce')
ToNumericStep ==
    /\ pc = "to_numeric"
    /\ IF ~HasColumn(df, "time_to_fix_hours")
       THEN df' = df /\ pc' = "raised"
       ELSE LET col == Column(df, "time_to_fix_hours") IN
            /\ df' = SetColumn(df, "time_to_fix_hours",
                               [k \in 1..Len(col) |-> ToNumeric(col[k])])
            /\ pc' = "fillna"
    /\ UNCHANGED <<file, content, fixed_content, msgs, cache, reads, returned>>
    /\ UNCHANGED lineVars

\* the loop over str_cols_to_fill
FillStep ==
    /\ pc = "fillna"
    /\ df' = FillColumns(df, 1)
    /\ pc' = "return"
    /\ UNCHANGED <<file, content, fixed_content, msgs, cache, reads, returned>>
    /\ UNCHANGED lineVars

\* return df: the decorator stores the result, the script binds it
Return ==
    /\ pc = "return"
    /\ cache' = [has |-> TRUE, df |-> df]
    /\ returned' = [has |-> TRUE, df |-> df]
    /\ pc' = "returned"
    /\ UNCHANGED <<file, content, fixed_content, df, msgs, reads>>
    /\ UNCHANGED lineVars

Next ==
    \/ Call
    \/ Open
    \/ Fix
    \/ Parse
    \/ Fallback
    \/ ToDatetime
    \/ ToNumericStep
    \/ FillStep
    \/ Return

Spec == Init /\ [][Next]_vars

\* ------------------------------------- the repair of one line, step by step
LineInit ==
    /\ LoadInit
    /\ line \in Lines
    /\ ncols \in 1..MaxCols
    /\ lpc = "start"
    /\ parts = <<>>
    /\ fixed_parts = <<>>
    /\ fixed_line = <<>>

SplitStep ==
    /\ lpc = "start"
    /\ parts' = SplitLine(line)
    /\ lpc' = "split"
    /\ UNCHANGED <<line, ncols, fixed_parts, fixed_line>>
    /\ UNCHANGED loadVars

FixPartsStep ==
    /\ lpc = "split"
    /\ fixed_parts' = FixParts(parts)
    /\ lpc' = "fixed"
    /\ UNCHANGED <<line, ncols, parts, fixed_line>>
    /\ UNCHANGED loadVars

JoinStep ==
    /\ lpc = "fixed"
    /\ fixed_line' = Join(fixed_parts, Comma)
    /\ lpc' = "joined"
    /\ UNCHANGED <<line, ncols, parts, fixed_parts>>
    /\ UNCHANGED loadVars

LineNext ==
    \/ SplitStep
    \/ FixPartsStep
    \/ JoinStep

LineSpec == LineInit /\ [][LineNext]_vars

\* ======================================================== line-level claims
QuotesBefore(l, i) == Cardinality({j \in 1..(i - 1) : l[j] = Quote})

\* the commas of l that an even number of quotes precede
Boundaries(l) == {i \in 1..Len(l) : l[i] = Comma /\ QuotesBefore(l, i) % 2 = 0}

RECURSIVE LenUpTo(_, _)
\* the length of ps[1], ..., ps[k] joined with one separator after each
LenUpTo(ps, k) == IF k = 0 THEN 0 ELSE LenUpTo(ps, k - 1) + Len(ps[k]) + 1

\* where the separators fall when ps is joined with ','
SeparatorPositions(ps) == {LenUpTo(ps, k) : k \in 1..(Len(ps) - 1)}

\* C1: the split cuts the line at exactly the commas that an even number of
\* quotes precede, and keeps every other character, so that joining the parts
\* with ',' gives the line back.
C1_SplitIsLossless ==
    lpc # "start" =>
        /\ Join(parts, Comma) = line
        /\ SeparatorPositions(parts) = Boundaries(line)

CountOf(l, c) == Cardinality({i \in 1..Len(l) : l[i] = c})

\* the fields a standard CSV parse finds on one line
FieldCount(l) ==
    LET tk == TokenizeC(l) IN IF tk.rows = <<>> THEN 0 ELSE Len(tk.rows[1])

\* an unquoted line of ncols fields, one of which holds a comma between two
\* pieces of text
EmbeddedComma(l, n) ==
    /\ ~Contains(l, Quote)
    /\ CountOf(l, Comma) = n
    /\ l[1] \notin {Comma, Blank}
    /\ l[Len(l)] \notin {Comma, Blank}
    /\ \A i \in 1..(Len(l) - 1) : l[i] = Comma => l[i + 1] \notin {Comma, Blank}

\* C2: a row with an unquoted field that holds a comma is repaired to a row of
\* the header's number of fields, the text around the comma being one field.
C2_EmbeddedCommaIsOneField ==
    (lpc = "joined" /\ line # <<>> /\ EmbeddedComma(line, ncols)) =>
        FieldCount(fixed_line) = ncols

\* C10: splitting the repaired line again gives the repaired parts back.
C10_RequoteKeepsFields ==
    lpc = "joined" => SplitLine(fixed_line) = fixed_parts

RECURSIVE RfcScan(_, _, _, _)
\* the number of fields of a line that is well-formed quoted CSV (a field is
\* free of quotes, or is enclosed in quotes with every inner quote doubled),
\* and -1 for any other line
RfcScan(l, i, st, n) ==
    IF i > Len(l) THEN (IF st = "QF" THEN -1 ELSE n + 1)
    ELSE LET c == l[i] IN
      CASE st = "SF" -> IF c = Quote THEN RfcScan(l, i + 1, "QF", n)
                        ELSE IF c = Comma THEN RfcScan(l, i + 1, "SF", n + 1)
                        ELSE RfcScan(l, i + 1, "IF", n)
        [] st = "IF" -> IF c = Quote THEN -1
                        ELSE IF c = Comma THEN RfcScan(l, i + 1, "SF", n + 1)
                        ELSE RfcScan(l, i + 1, "IF", n)
        [] st = "QF" -> IF c = Quote THEN RfcScan(l, i + 1, "QQ", n)
                        ELSE RfcScan(l, i + 1, "QF", n)
        [] OTHER     -> IF c = Quote THEN RfcScan(l, i + 1, "QF", n)
                        ELSE IF c = Comma THEN RfcScan(l, i + 1, "SF", n + 1)
                        ELSE -1

WellFormed(l, n) == RfcScan(l, 1, "SF", 0) = n

\* a document of one header of n columns and one data line
HeaderOf(n) == Join([k \in 1..n |-> <<"column">>], Comma)
OneRowDoc(n, l) == HeaderOf(n) \o <<NL>> \o l

SameParse(n, original, corrected) ==
    ReadCsv(OneRowDoc(n, corrected)) = ReadCsv(OneRowDoc(n, original))

\* C3 as stated: on a well-formed row the corrected line parses to the same
\* row as the original line.
C3_RepairIsNoOp ==
    (lpc = "joined" /\ WellFormed(line, ncols)) => SameParse(ncols, line, fixed_line)

\* ======================================================== load-level claims
\* the call ran the body (a memoised result leaves file unset)
RanBody == file.exists

Parsed == {"to_datetime", "to_numeric", "fillna", "return", "returned", "raised"}
Converted == {"to_numeric", "fillna", "return", "returned"}
Aborted == {"stopped", "raised"}

PrimaryOk == ReadCsv(fixed_content).ok
LenientOk == ReadCsvSkip(content).ok

DateUnparsable(cell) == ~DateSure(cell) /\ ~DateMaybe(cell)

\* the frame has the two columns the coercions index
HasRequired(d) == HasColumn(d, "date") /\ HasColumn(d, "time_to_fix_hours")

DatesParsed(d) ==
    /\ HasColumn(d, "date")
    /\ \A k \in 1..Len(d.data) : ~DateUnparsable(Column(d, "date")[k])

\* C4: a table comes back only when the file was read, one of the two parses
\* succeeded and every date value was parsed; a load that aborts (file
\* missing, both parses failed, a date unparsable) returns no table and
\* memoises none.
C4_TableOnlyFromCleanLoad ==
    /\ (pc \in Converted /\ RanBody) => ((PrimaryOk \/ LenientOk) /\ DatesParsed(df))
    /\ (pc = "returned" /\ returned.has /\ RanBody) => DatesParsed(returned.df)
    /\ (pc = "returned") => returned.has
    /\ (pc \in Aborted) => (~returned.has /\ ~cache.has)
    /\ (pc \notin {"idle", "open", "returned"} /\ ~file.exists) => pc = "stopped"
    /\ (pc \in Parsed \cup Aborted /\ RanBody /\ ~PrimaryOk /\ ~LenientOk) => pc = "stopped"

\* the load aborted on a date value that is no date, with no table returned
C4_Witness ==
    /\ pc = "raised"
    /\ HasColumn(df, "date")
    /\ \E k \in 1..Len(df.data) : DateUnparsable(Column(df, "date")[k])
    /\ ~returned.has

\* the primary parse failed and the lenient parse of the original succeeded
FellBack == pc \in Parsed /\ RanBody /\ ~PrimaryOk /\ LenientOk

\* len(lines) of the repair
InputLines == Len(SplitNL(Strip(content)))

CoercionRaises(d) ==
    \/ ~HasColumn(d, "date")
    \/ FALSE \in DateOutcomes(Column(d, "date"))
    \/ ~HasColumn(d, "time_to_fix_hours")

IsError(m) == m \in {ErrNotFound, ErrLoading, ErrCritical}

\* C6: every fatal abort of the load (file missing, both parses failed, a
\* date value unparsable) comes after an error message shown to the user.
C6_AbortIsReported ==
    (pc \in Aborted /\ (pc = "raised" => HasRequired(df))) =>
        \E i \in 1..Len(msgs) : IsError(msgs[i])

FillTargets(d) == {n \in {str_cols_to_fill[i] : i \in 1..Len(str_cols_to_fill)} : HasColumn(d, n)}

NoneMissing(d) ==
    \A n \in FillTargets(d) : \A k \in 1..Len(d.data) : Column(d, n)[k] # NA

FilledFrom(old, new) ==
    /\ new.columns = old.columns
    /\ Len(new.data) = Len(old.data)
    /\ \A k \in 1..Len(old.data) : \A j \in 1..Len(old.columns) :
         new.data[k][j] =
            IF old.data[k][j] = NA /\ \E n \in FillTargets(old) : old.columns[j] = <<n>>
            THEN FillValue
            ELSE old.data[k][j]

\* C7: the fill step keeps every row and puts "N/A" in place of each missing
\* risk_level, status and attack_type, so that a returned table, from the
\* primary or the lenient parse, has none of them missing.
C7_CategoricalsFilled ==
    [][ /\ (pc = "fillna" => FilledFrom(df, df'))
        /\ (pc' = "returned" => NoneMissing(returned'.df)) ]_vars

\* a table returned through the lenient parse in which a missing risk_level
\* was filled
C7_Witness ==
    /\ pc = "returned"
    /\ FellBack
    /\ HasColumn(returned.df, "risk_level")
    /\ \E k \in 1..Len(returned.df.data) : Column(returned.df, "risk_level")[k] = FillValue

\* C8: the numeric coercion keeps every row and every other column, and
\* leaves time_to_fix_hours a number or the missing marker, the missing marker
\* wherever the value was not numeric.
C8_NonNumericBlanked ==
    [][ (pc = "to_numeric" /\ HasColumn(df, "time_to_fix_hours")) =>
          LET c == ColumnIndex(df, "time_to_fix_hours") IN
          /\ df'.columns = df.columns
          /\ Len(df'.data) = Len(df.data)
          /\ \A k \in 1..Len(df.data) : \A j \in 1..Len(df.columns) :
               IF j = c
               THEN /\ df'.data[k][j] \in {NA, <<NumLit>>}
                    /\ ~IsNumeric(df.data[k][j]) => df'.data[k][j] = NA
               ELSE df'.data[k][j] = df.data[k][j] ]_vars

\* a row whose time_to_fix_hours was a word is still there, the value blanked
C8_Witness ==
    /\ pc = "fillna"
    /\ PrimaryOk
    /\ \E k \in 1..Len(df.data) :
         /\ Column(df, "time_to_fix_hours")[k] = NA
         /\ Column(ReadCsv(fixed_content).df, "time_to_fix_hours")[k] = <<Word>>

\* C9: once a load has succeeded the file is not opened or parsed again: the
\* read counter and the memoised table stay as they are and every later call
\* returns that table.
C9_LoadedOnce ==
    [][ cache.has =>
          /\ cache' = cache
          /\ reads' = reads
          /\ pc' = "returned"
          /\ returned' = cache ]_vars

\* a second call answered from the memoised table, the file read once
C9_Witness ==
    /\ cache.has
    /\ pc = "returned"
    /\ ~RanBody
    /\ returned = cache
    /\ reads = 1

====
